---- MODULE Spec2Model ----
(***************************************************************************)
(* Launcher, persisted state record and update/draw/sleep driver of the    *)
(* Inky Frame apps (main.py, app_state.py, network_util.py and the apps     *)
(* app_pictures, app_weather, app_xkcd).                                    *)
(*                                                                          *)
(* Python values are modelled as tagged tuples of strings: None is          *)
(* <<"None">>, the str s is <<"str", s>>, a number is <<"num", digits>>.    *)
(* A dict is the set of its <<key, value>> items.  The text of a JSON file  *)
(* is the sequence of its tokens.  Library calls that the source does not   *)
(* guard with try/except (display, LEDs, SPI/SDCard construction, RTC) are  *)
(* taken to succeed; calls the source guards may fail.                      *)
(***************************************************************************)
EXTENDS Integers, Sequences, FiniteSets, TLC

VARIABLES
    pc,            \* position of main.py: boot, dispatch, show_launcher, launcher,
                   \* reset, wifi, wifi_wait, wifi_done, update, draw, sleep,
                   \* sleeping, crashed, unit
    fs,            \* the file state.json on flash: [kind, text]
    state,         \* app_state.state (a dict)
    app,           \* app_state.app: NoApp or the imported module's name
    sd,            \* the app module's global sd: "unset", "mounted" or "none"
    appInterval,   \* the app module's global UPDATE_INTERVAL
    configPresent, \* whether config.py is on the device
    bootA, bootE,  \* what button_a.read() / button_e.read() gave at boot
    pollIdx,       \* which handle_button_press call of the launcher loop is next
    btnLed,        \* the buttons whose LED is on
    ledWarn, ledBusy, netLed,
    buffer,        \* the PicoGraphics drawing buffer
    screen,        \* what the e-ink panel shows (kept without power)
    hour,          \* time.localtime()[3]
    crash,         \* the uncaught exception that ended main.py, or "none"
    recordRead,    \* state.json was opened for reading in this boot
    launched,      \* launch_app was called in this boot
    selected,      \* the button of the last launcher selection, or "none"
    nWrites,       \* how often state.json was opened for writing in this boot
    netTimer,      \* network_util's pulsing timer is running
    maxWait,       \* network_connect's local max_wait
    waits,         \* the time.sleep(1) calls network_connect has made
    wlanStatus,    \* the wlan.status() network_connect read last (0: none yet)
    cycUpd,        \* this cycle's update(): none, skipped, returned, caught
    cycDrew,       \* draw() ran in this cycle
    drawHour,      \* the hour at which this cycle's draw() ran (-1: not yet)
    drawLocal,     \* the local UPDATE_INTERVAL computed by this cycle's draw()
    cycBufBefore,  \* the drawing buffer when this cycle's update() began
    cycTouched,    \* what this cycle's update() touched: busy, storage, buffer
    sleepArg,      \* the minutes passed to ih.sleep in this cycle (-1: not yet)
    uOp, uPrev,    \* harness: the last call made and the one before it
    uArg,          \* harness: the dict given to the last save_state
    uBefore,       \* harness: the in-memory state when the last load_state began
    uName,         \* harness: the name given to the last launch_app
    uRaised,       \* harness: the exception the last call raised, or "none"
    uIn, uOut,     \* harness: arguments and result of get_app_update_interval
    dlData,        \* app_xkcd.do_update's bytearray data
    dlFile,        \* the bytes written to the cache file so far
    dlRecv,        \* the bytes socket.readinto has delivered so far
    dlDone         \* the download loop has ended and the file is closed

vars == <<pc, fs, state, app, sd, appInterval, configPresent, bootA, bootE,
          pollIdx, btnLed, ledWarn, ledBusy, netLed, buffer, screen, hour,
          crash, recordRead, launched, selected, nWrites, netTimer, maxWait, waits, wlanStatus,
          cycUpd, cycDrew, drawHour, drawLocal, cycBufBefore, cycTouched, sleepArg,
          uOp, uPrev, uArg, uBefore,
          uName, uRaised, uIn, uOut, dlData, dlFile, dlRecv, dlDone>>

downloadVars == <<dlData, dlFile, dlRecv, dlDone>>
harnessVars == <<uOp, uPrev, uArg, uBefore, uName, uRaised, uIn, uOut,
                 dlData, dlFile, dlRecv, dlDone>>
netVars == <<netTimer, maxWait, waits, wlanStatus>>
cycleVars == <<cycUpd, cycDrew, drawHour, drawLocal, cycBufBefore, cycTouched, sleepArg>>

----------------------------------------------------------------------------
(* Bounds *)

\* get_app_update_interval is also tried with every interval in 0..MaxInterval.
MaxInterval == 2

\* The length of do_update's buffer, bytearray(1024) in app_xkcd.py line 108,
\* scaled down; readinto delivers 1..BufLen bytes, or 0 at the end.
BufLen == 2

\* The most readinto calls that deliver bytes in one download.
MaxChunks == 3

----------------------------------------------------------------------------
(* Python values and dicts *)

None == <<"None">>
Str(s) == <<"str", s>>
Num(s) == <<"num", s>>
IsStr(v) == v[1] = "str"

NoApp == "<None>"

DictHas(d, k) == \E p \in d : p[1] = k
DictGet(d, k) == (CHOOSE p \in d : p[1] = k)[2]
DictSet(d, k, v) == {p \in d : p[1] # k} \cup {<<k, v>>}

\* app_state.py line 32: state = {"run": None}
DefaultState == {<<"run", None>>}

----------------------------------------------------------------------------
(* app_state.py: the day/night policy *)

DAY_START == 8
DAY_END == 23
Hours == 0..23

get_app_update_interval_endInclusive(current_hour, day_update_interval, night_update_interval) ==
    IF DAY_START <= current_hour /\ current_hour <= DAY_END
    THEN day_update_interval
    ELSE night_update_interval

\* current_hour is time.localtime()[3], read inside the function.
get_app_update_interval(current_hour, day_update_interval, night_update_interval) ==
    IF DAY_START <= current_hour /\ current_hour < DAY_END
    THEN day_update_interval
    ELSE night_update_interval

----------------------------------------------------------------------------
(* json.dumps / json.loads over token sequences *)

LBrace == <<"{">>
RBrace == <<"}">>
LBracket == <<"[">>
RBracket == <<"]">>
Colon == <<":">>
Comma == <<",">>
NullTok == <<"null">>
StringTok(s) == <<"string", s>>

EncodeValue_noneAsString(v) ==
    IF v = None THEN StringTok("None")
    ELSE IF IsStr(v) THEN StringTok(v[2])
    ELSE v

\* json.dumps of a value: None becomes the literal null, a str a string literal.
EncodeValue(v) ==
    IF v = None THEN NullTok
    ELSE IF IsStr(v) THEN StringTok(v[2])
    ELSE v

DecodeValue(t) ==
    IF t = NullTok THEN None
    ELSE IF t[1] = "string" THEN Str(t[2])
    ELSE t

IsScalarTok(t) == t = NullTok \/ t[1] = "string" \/ t[1] = "num"

RECURSIVE DumpItems(_)
DumpItems(d) ==
    IF d = {} THEN <<>>
    ELSE LET p == CHOOSE q \in d : TRUE
             rest == d \ {p}
         IN  <<StringTok(p[1]), Colon, EncodeValue(p[2])>>
             \o (IF rest = {} THEN <<>> ELSE <<Comma>> \o DumpItems(rest))

\* json.dumps(data) for a dict.
Dumps(d) == <<LBrace>> \o DumpItems(d) \o <<RBrace>>

\* json.loads(text) for texts of at most one member: kind is "dict" (d holds it),
\* "other" (a valid JSON value that is not an object) or "error" (ValueError).
Loads(text) ==
    LET n == Len(text) IN
    IF n = 1 /\ IsScalarTok(text[1])
        THEN [kind |-> "other", d |-> {}]
    ELSE IF n = 2 /\ text[1] = LBracket /\ text[2] = RBracket
        THEN [kind |-> "other", d |-> {}]
    ELSE IF n = 2 /\ text[1] = LBrace /\ text[2] = RBrace
        THEN [kind |-> "dict", d |-> {}]
    ELSE IF n = 5 /\ text[1] = LBrace /\ text[2][1] = "string" /\ text[3] = Colon
              /\ IsScalarTok(text[4]) /\ text[5] = RBrace
        THEN [kind |-> "dict", d |-> {<<text[2][2], DecodeValue(text[4])>>}]
    ELSE [kind |-> "error", d |-> {}]

----------------------------------------------------------------------------
(* The record file and app_state.py's store functions *)

Absent == [kind |-> "absent", text |-> <<>>]
Directory == [kind |-> "dir", text |-> <<>>]
File(text) == [kind |-> "file", text |-> text]

\* os.stat(filename)[0] & 0x8000, False on OSError.
file_exists(f) == f.kind = "file"

\* open("/state.json", "w") raises OSError on a directory.
save_state(f, data) ==
    IF f.kind = "dir" THEN [raised |-> "OSError", fs |-> f]
    ELSE [raised |-> "none", fs |-> File(Dumps(data))]

\* Only OSError is caught; json.loads raises ValueError on malformed text.
load_state(f, st) ==
    IF f.kind # "file" THEN [raised |-> "none", state |-> DefaultState]
    ELSE LET r == Loads(f.text) IN
         IF r.kind = "error" THEN [raised |-> "ValueError", state |-> st]
         ELSE IF r.kind = "dict" THEN [raised |-> "none", state |-> r.d]
         ELSE [raised |-> "none", state |-> st]

update_state(f, st, running) ==
    LET st1 == DictSet(st, "run", Str(running))
        w == save_state(f, st1)
    IN  [raised |-> w.raised, state |-> st1, fs |-> w.fs]

----------------------------------------------------------------------------
(* The registry, the modules on the device and app_state.launch_app *)

Buttons == {"A", "B", "C", "D", "E"}
ButtonOrder_reversed == <<"E", "D", "C", "B", "A">>

\* lines 203-207: the order of the handle_button_press calls in launcher().
ButtonOrder == <<"A", "B", "C", "D", "E">>

app_states_shifted ==
    [A |-> "app_nasa", B |-> "app_weather", C |-> "app_pictures",
     D |-> "app_news", E |-> "app_xkcd"]

\* handle_button_press.app_states
app_states ==
    [A |-> "app_nasa", B |-> "app_pictures", C |-> "app_weather",
     D |-> "app_news", E |-> "app_xkcd"]

RegistryIds == {app_states[b] : b \in Buttons}

\* The app modules the repository holds.
RepositoryApps == {"app_pictures", "app_weather", "app_xkcd"}

\* app_weather.py line 36: from config import ...
NeedsConfig(name) == name = "app_weather"

\* The apps whose module mounts the SD card.
SdApps == {"app_pictures", "app_xkcd"}

\* Whether __import__(name) completes: the module exists and its own imports do.
ImportSucceeds(name, cfg) ==
    name \in RepositoryApps /\ (NeedsConfig(name) => cfg)

\* The module-level UPDATE_INTERVAL each app sets when imported.
ModuleInterval(name) ==
    IF name = "app_xkcd" THEN 480 ELSE 30

launch_app_noRewrite(v, f, st, cfg) ==
    IF ~IsStr(v)
        THEN [raised |-> "TypeError", app |-> NoApp, state |-> st, fs |-> f,
              wrote |-> FALSE]
    ELSE IF ImportSucceeds(v[2], cfg)
        THEN [raised |-> "none", app |-> v[2], state |-> st, fs |-> f, wrote |-> FALSE]
    ELSE [raised |-> "none", app |-> NoApp, state |-> st, fs |-> f, wrote |-> FALSE]

\* __import__ of a non-str raises TypeError, which launch_app does not catch;
\* ImportError is caught and leaves app = None.  After a successful import
\* launch_app calls update_state(app_name), which opens state.json for writing.
launch_app(v, f, st, cfg) ==
    IF ~IsStr(v)
        THEN [raised |-> "TypeError", app |-> NoApp, state |-> st, fs |-> f,
              wrote |-> FALSE]
    ELSE IF ImportSucceeds(v[2], cfg)
        THEN LET u == update_state(f, st, v[2])
             IN  [raised |-> u.raised, app |-> v[2], state |-> u.state, fs |-> u.fs,
                  wrote |-> u.raised = "none"]
    ELSE [raised |-> "none", app |-> NoApp, state |-> st, fs |-> f, wrote |-> FALSE]

----------------------------------------------------------------------------
(* The apps: update(), do_update() and draw() *)

\* What one run of do_update can do: return or raise, and what it leaves in
\* the drawing buffer ("same": untouched).
DoUpdateOutcomes(a) ==
    IF a = "app_pictures" THEN
        { [raised |-> FALSE, buf |-> "same", sdUse |-> TRUE],     \* no JPEG files: return
          [raised |-> TRUE,  buf |-> "same", sdUse |-> TRUE],     \* listdir / open_file fails
          [raised |-> TRUE,  buf |-> "partial", sdUse |-> TRUE],  \* decode fails part way
          [raised |-> FALSE, buf |-> "picture", sdUse |-> TRUE] }
    ELSE IF a = "app_weather" THEN
        { [raised |-> FALSE, buf |-> "same", sdUse |-> FALSE],    \* temp is None: return
          [raised |-> TRUE,  buf |-> "partial", sdUse |-> FALSE], \* a failure after clear()
          [raised |-> FALSE, buf |-> "weather", sdUse |-> FALSE] }
    ELSE
        { [raised |-> TRUE,  buf |-> "same", sdUse |-> FALSE],    \* urlopen fails
          [raised |-> TRUE,  buf |-> "same", sdUse |-> TRUE],     \* open / readinto / write fails
          [raised |-> TRUE,  buf |-> "blank", sdUse |-> TRUE],    \* decode fails after clear()
          [raised |-> FALSE, buf |-> "comic", sdUse |-> TRUE] }

\* What a run of update() that got past the sd check touched.
Touched(o) ==
    {"busy"} \cup (IF o.sdUse THEN {"storage"} ELSE {})
             \cup (IF o.buf # "same" THEN {"buffer"} ELSE {})

update_ignoresSd(a, sdv, busy, o) ==
    [kind |-> IF o.raised THEN "caught" ELSE "returned",
     escaped |-> FALSE, buf |-> o.buf, busy |-> FALSE, touched |-> Touched(o)]

update_noFinally(a, sdv, busy, o) ==
    IF a \in SdApps /\ sdv = "none"
        THEN [kind |-> "skipped", escaped |-> FALSE, buf |-> "same", busy |-> busy,
              touched |-> {}]
    ELSE [kind |-> IF o.raised THEN "caught" ELSE "returned",
          escaped |-> FALSE, buf |-> o.buf, busy |-> o.raised, touched |-> Touched(o)]

update_noCatch(a, sdv, busy, o) ==
    IF a \in SdApps /\ sdv = "none"
        THEN [kind |-> "skipped", escaped |-> FALSE, buf |-> "same", busy |-> busy,
              touched |-> {}]
    ELSE [kind |-> IF o.raised THEN "raised" ELSE "returned",
          escaped |-> o.raised, buf |-> o.buf, busy |-> o.raised, touched |-> Touched(o)]

\* update(): the sd check, led_busy.on(), try do_update() except Exception, finally led_busy.off().
update(a, sdv, busy, o) ==
    IF a \in SdApps /\ sdv = "none"
        THEN [kind |-> "skipped", escaped |-> FALSE, buf |-> "same", busy |-> busy,
              touched |-> {}]
    ELSE [kind |-> IF o.raised THEN "caught" ELSE "returned",
          escaped |-> FALSE, buf |-> o.buf, busy |-> FALSE, touched |-> Touched(o)]

\* draw(): graphics.update(), then UPDATE_INTERVAL = get_app_update_interval(...)
\* without a global declaration: the assignment binds a local, and the module's
\* UPDATE_INTERVAL (moduleInterval) stays as it was.
draw(a, h, moduleInterval) ==
    [local |-> IF a = "app_pictures" THEN get_app_update_interval(h, 30, 240)
               ELSE IF a = "app_weather" THEN get_app_update_interval(h, 30, 120)
               ELSE -1,
     moduleInterval |-> moduleInterval]

----------------------------------------------------------------------------
(* main.py *)

ChordHeld_aOnly(a, e) == a /\ ~e

\* line 210: button_a.read() and button_e.read()
ChordHeld(a, e) == a /\ e

LauncherPcs == {"show_launcher", "launcher"}
LoopPcs == {"wifi", "wifi_wait", "wifi_done", "update", "draw", "sleep", "sleeping"}

\* What a reset or power-up leaves: flash, the e-ink panel, config and the clock
\* are kept, every Python global is rebuilt.
Restart ==
    /\ pc' = "boot"
    /\ state' = DefaultState
    /\ app' = NoApp
    /\ sd' = "unset"
    /\ appInterval' = 0
    /\ bootA' = FALSE
    /\ bootE' = FALSE
    /\ pollIdx' = 1
    /\ btnLed' = {}
    /\ ledWarn' = FALSE
    /\ ledBusy' = FALSE
    /\ netLed' = "off"
    /\ buffer' = "fresh"
    /\ crash' = "none"
    /\ recordRead' = FALSE
    /\ launched' = FALSE
    /\ nWrites' = 0
    /\ netTimer' = FALSE
    /\ maxWait' = 0
    /\ waits' = 0
    /\ wlanStatus' = 0
    /\ cycUpd' = "none"
    /\ cycDrew' = FALSE
    /\ drawHour' = -1
    /\ drawLocal' = -1
    /\ cycBufBefore' = "unset"
    /\ cycTouched' = {}
    /\ sleepArg' = -1
    /\ UNCHANGED <<fs, screen, configPresent, selected>>
    /\ UNCHANGED harnessVars

\* lines 21-31 and the chord check of line 210.
Boot ==
    /\ pc = "boot"
    /\ \E a \in BOOLEAN, e \in BOOLEAN :
        /\ bootA' = a
        /\ bootE' = e
        /\ pc' = IF ChordHeld(a, e) THEN "show_launcher" ELSE "dispatch"
    /\ btnLed' = {}
    /\ ledWarn' = FALSE
    /\ UNCHANGED <<fs, state, app, sd, appInterval, configPresent, pollIdx, ledBusy,
                   netLed, buffer, screen, hour, crash, recordRead, launched, selected>>
    /\ UNCHANGED cycleVars
    /\ UNCHANGED harnessVars
    /\ UNCHANGED netVars
    /\ UNCHANGED nWrites

\* launcher(), lines 197-200: draw the menu, flush it, enter the polling loop.
ShowLauncher ==
    /\ pc = "show_launcher"
    /\ buffer' = "menu"
    /\ screen' = "menu"
    /\ ledWarn' = FALSE
    /\ pollIdx' = 1
    /\ pc' = "launcher"
    /\ UNCHANGED <<fs, state, app, sd, appInterval, configPresent, bootA, bootE, btnLed,
                   ledBusy, netLed, hour, crash, recordRead, launched, selected>>
    /\ UNCHANGED cycleVars
    /\ UNCHANGED harnessVars
    /\ UNCHANGED netVars
    /\ UNCHANGED nWrites

\* One handle_button_press(button, state_key) call of the launcher loop.
HandleButtonPress ==
    /\ pc = "launcher"
    /\ \E pressed \in BOOLEAN :
        LET b == ButtonOrder[pollIdx]
            u == update_state(fs, state, app_states[b])
        IN  IF pressed
            THEN /\ btnLed' = btnLed \cup {b}
                 /\ selected' = b
                 /\ state' = u.state
                 /\ fs' = u.fs
                 /\ pc' = IF u.raised = "none" THEN "reset" ELSE "crashed"
                 /\ crash' = u.raised
                 /\ nWrites' = IF u.raised = "none" THEN nWrites + 1 ELSE nWrites
                 /\ UNCHANGED pollIdx
            ELSE /\ pollIdx' = (pollIdx % 5) + 1
                 /\ UNCHANGED <<btnLed, state, fs, pc, crash, selected, nWrites>>
    /\ UNCHANGED <<app, sd, appInterval, configPresent, bootA, bootE, ledWarn, ledBusy,
                   netLed, buffer, screen, hour, recordRead, launched>>
    /\ UNCHANGED cycleVars
    /\ UNCHANGED harnessVars
    /\ UNCHANGED netVars

\* time.sleep(0.5); reset()
Reset ==
    /\ pc = "reset"
    /\ Restart
    /\ UNCHANGED hour

\* The reset button or a power cycle, at any point of a run.
PhysicalReset ==
    /\ pc \notin {"boot", "unit"}
    /\ Restart
    /\ UNCHANGED hour

\* lines 214-227: clear the LEDs, then load the record and launch its app, or
\* show the launcher when there is no record file.
BootDispatch ==
    /\ pc = "dispatch"
    /\ btnLed' = {}
    /\ IF file_exists(fs)
       THEN LET ld == load_state(fs, state)
                hasRun == DictHas(ld.state, "run")
                la == launch_app(DictGet(ld.state, "run"), fs, ld.state, configPresent)
            IN  /\ recordRead' = TRUE
                /\ IF ld.raised # "none"
                   THEN /\ pc' = "crashed"
                        /\ crash' = ld.raised
                        /\ launched' = FALSE
                        /\ UNCHANGED <<fs, state, app, sd, appInterval, nWrites>>
                   ELSE IF ~hasRun
                   THEN /\ pc' = "crashed"
                        /\ crash' = "KeyError"
                        /\ state' = ld.state
                        /\ launched' = FALSE
                        /\ UNCHANGED <<fs, app, sd, appInterval, nWrites>>
                   ELSE /\ launched' = TRUE
                        /\ state' = la.state
                        /\ fs' = la.fs
                        /\ app' = la.app
                        /\ nWrites' = IF la.wrote THEN nWrites + 1 ELSE nWrites
                        /\ IF la.raised # "none"
                           THEN /\ pc' = "crashed"
                                /\ crash' = la.raised
                                /\ UNCHANGED <<sd, appInterval>>
                           ELSE IF la.app = NoApp
                           THEN \* line 223: sh.app.graphics = graphics with app None
                                /\ pc' = "crashed"
                                /\ crash' = "AttributeError"
                                /\ UNCHANGED <<sd, appInterval>>
                           ELSE /\ pc' = "wifi"
                                /\ crash' = "none"
                                /\ appInterval' = ModuleInterval(la.app)
                                /\ \E m \in (IF la.app \in SdApps
                                             THEN {"mounted", "none"} ELSE {"unset"}) :
                                       sd' = m
       ELSE /\ pc' = "show_launcher"
            /\ UNCHANGED <<fs, state, app, sd, appInterval, crash, recordRead, launched,
                           nWrites>>
    /\ UNCHANGED <<configPresent, bootA, bootE, pollIdx, ledWarn, ledBusy, netLed,
                   buffer, screen, hour, selected>>
    /\ UNCHANGED cycleVars
    /\ UNCHANGED harnessVars
    /\ UNCHANGED netVars

\* The wlan.status() values network_connect can read: a failure (negative),
\* still joining (0..2), connected (3).
WlanStatuses == {-1, 1, 3}

\* network_util.py line 127: max_wait = 10
max_wait_start == 10

WaitGoesOn_offByOne(max_wait) == max_wait >= 0

\* network_util.py line 132: while max_wait > 0
WaitGoesOn(max_wait) == max_wait > 0

\* main.py lines 229-234: from config import ...; without config.py the
\* ImportError is caught and the loop starts.  With it, network_connect is
\* entered: lines 117-130, pulse_network_led() starts the timer, wlan.connect.
Wifi ==
    /\ pc = "wifi"
    /\ IF configPresent
       THEN /\ netTimer' = TRUE
            /\ netLed' = "pulsing"
            /\ maxWait' = max_wait_start
            /\ waits' = 0
            /\ pc' = "wifi_wait"
       ELSE /\ pc' = "update"
            /\ UNCHANGED <<netTimer, netLed, maxWait, waits>>
    /\ UNCHANGED <<fs, state, app, sd, appInterval, configPresent, bootA, bootE, pollIdx,
                   btnLed, ledWarn, ledBusy, buffer, screen, hour, crash, recordRead,
                   launched, selected, nWrites, wlanStatus>>
    /\ UNCHANGED cycleVars
    /\ UNCHANGED harnessVars

\* network_connect lines 132-137: one test of the while condition and, when it
\* holds, one pass of the body: the two wlan.status() reads, then the break or
\* max_wait -= 1 and time.sleep(1).
NetworkWait ==
    /\ pc = "wifi_wait"
    /\ IF WaitGoesOn(maxWait)
       THEN \E s1 \in WlanStatuses, s2 \in WlanStatuses :
               IF s1 < 0 \/ s2 >= 3
               THEN /\ wlanStatus' = IF s1 < 0 THEN s1 ELSE s2
                    /\ pc' = "wifi_done"
                    /\ UNCHANGED <<maxWait, waits>>
               ELSE /\ wlanStatus' = s2
                    /\ maxWait' = maxWait - 1
                    /\ waits' = waits + 1
                    /\ pc' = "wifi_wait"
       ELSE /\ pc' = "wifi_done"
            /\ UNCHANGED <<maxWait, waits, wlanStatus>>
    /\ UNCHANGED <<fs, state, app, sd, appInterval, configPresent, bootA, bootE, pollIdx,
                   btnLed, ledWarn, ledBusy, netLed, buffer, screen, hour, crash,
                   recordRead, launched, selected, nWrites, netTimer>>
    /\ UNCHANGED cycleVars
    /\ UNCHANGED harnessVars

\* network_connect lines 139-144: stop_network_led(), the LED at duty 30000,
\* the final wlan.status() read; when it is not 3, stop_network_led() again
\* and led_warn.on().  Then the return to main.py line 237.
NetworkReturn ==
    /\ pc = "wifi_done"
    /\ \E status \in WlanStatuses :
        /\ wlanStatus' = status
        /\ netLed' = IF status = 3 THEN "on" ELSE "off"
        /\ ledWarn' = IF status = 3 THEN ledWarn ELSE TRUE
    /\ netTimer' = FALSE
    /\ maxWait' = 0
    /\ waits' = 0
    /\ pc' = "update"
    /\ UNCHANGED <<fs, state, app, sd, appInterval, configPresent, bootA, bootE, pollIdx,
                   btnLed, ledBusy, buffer, screen, hour, crash, recordRead, launched,
                   selected, nWrites>>
    /\ UNCHANGED cycleVars
    /\ UNCHANGED harnessVars

\* line 244: sh.app.update()
AppUpdate ==
    /\ pc = "update"
    /\ cycBufBefore' = buffer
    /\ \E o \in DoUpdateOutcomes(app) :
        LET u == update(app, sd, ledBusy, o)
        IN  /\ cycUpd' = u.kind
            /\ cycTouched' = u.touched
            /\ buffer' = IF u.buf = "same" THEN buffer ELSE u.buf
            /\ ledBusy' = u.busy
            /\ pc' = IF u.escaped THEN "crashed" ELSE "draw"
            /\ crash' = IF u.escaped THEN "UpdateError" ELSE crash
    /\ UNCHANGED <<fs, state, app, sd, appInterval, configPresent, bootA, bootE, pollIdx,
                   btnLed, ledWarn, netLed, screen, hour, recordRead, launched, selected,
                   cycDrew, drawHour, drawLocal, sleepArg>>
    /\ UNCHANGED harnessVars
    /\ UNCHANGED netVars
    /\ UNCHANGED nWrites

AppDraw_warnLeftOn ==
    /\ pc = "draw"
    /\ LET r == draw(app, hour, appInterval)
       IN  /\ drawLocal' = r.local
           /\ appInterval' = r.moduleInterval
    /\ screen' = buffer
    /\ drawHour' = hour
    /\ cycDrew' = TRUE
    /\ ledWarn' = TRUE
    /\ pc' = "sleep"
    /\ UNCHANGED <<fs, state, app, sd, configPresent, bootA, bootE, pollIdx, btnLed,
                   ledBusy, netLed, buffer, hour, crash, recordRead, launched, selected,
                   cycUpd, cycBufBefore, cycTouched, sleepArg>>
    /\ UNCHANGED harnessVars
    /\ UNCHANGED netVars
    /\ UNCHANGED nWrites

\* lines 245-247: led_warn.on(); sh.app.draw(); led_warn.off()
AppDraw ==
    /\ pc = "draw"
    /\ LET r == draw(app, hour, appInterval)
       IN  /\ drawLocal' = r.local
           /\ appInterval' = r.moduleInterval
    /\ screen' = buffer
    /\ drawHour' = hour
    /\ cycDrew' = TRUE
    /\ ledWarn' = FALSE
    /\ pc' = "sleep"
    /\ UNCHANGED <<fs, state, app, sd, configPresent, bootA, bootE, pollIdx, btnLed,
                   ledBusy, netLed, buffer, hour, crash, recordRead, launched, selected,
                   cycUpd, cycBufBefore, cycTouched, sleepArg>>
    /\ UNCHANGED harnessVars
    /\ UNCHANGED netVars
    /\ UNCHANGED nWrites

\* line 248 and network_util.sleep up to time.sleep: the RTC timer is set to
\* sh.app.UPDATE_INTERVAL minutes and the power hold is released.
AppSleep ==
    /\ pc = "sleep"
    /\ sleepArg' = appInterval
    /\ pc' = "sleeping"
    /\ UNCHANGED <<fs, state, app, sd, appInterval, configPresent, bootA, bootE, pollIdx,
                   btnLed, ledWarn, ledBusy, netLed, buffer, screen, hour, crash,
                   recordRead, launched, selected, cycUpd, cycDrew, drawHour, drawLocal,
                   cycBufBefore, cycTouched>>
    /\ UNCHANGED harnessVars
    /\ UNCHANGED netVars
    /\ UNCHANGED nWrites

\* The end of the sleep: on USB power time.sleep returns and the loop goes on;
\* on battery the board was powered down and the RTC alarm boots it again.
Wake ==
    /\ pc = "sleeping"
    /\ \E h \in Hours : hour' = h
    /\ \/ /\ pc' = "update"
          /\ cycUpd' = "none"
          /\ cycDrew' = FALSE
          /\ drawHour' = -1
          /\ drawLocal' = -1
          /\ cycBufBefore' = "unset"
          /\ cycTouched' = {}
          /\ sleepArg' = -1
          /\ UNCHANGED <<fs, state, app, sd, appInterval, configPresent, bootA, bootE,
                         pollIdx, btnLed, ledWarn, ledBusy, netLed, buffer, screen,
                         crash, recordRead, launched, selected>>
          /\ UNCHANGED harnessVars
          /\ UNCHANGED netVars
          /\ UNCHANGED nWrites
       \/ Restart

----------------------------------------------------------------------------
(* The device: any record content at first power-up *)

UnknownIds == {"app_bogus"}

RunValues == {None} \cup {Str(n) : n \in RegistryIds \cup UnknownIds}

\* The texts state.json may hold: what save_state writes for a run value, an
\* empty object, an object without run, a list, and a truncated object.
RecordTexts ==
    {Dumps({<<"run", v>>}) : v \in RunValues}
    \cup { Dumps({}), Dumps({<<"mode", Str("x")>>}), <<LBracket, RBracket>>,
           <<LBrace, StringTok("run")>> }

HarnessIdle ==
    /\ uOp = "none"
    /\ uPrev = "none"
    /\ uArg = {}
    /\ uBefore = {}
    /\ uName = None
    /\ uRaised = "none"
    /\ uIn = <<-1, -1, -1>>
    /\ uOut = -1
    /\ dlData = [i \in 1..BufLen |-> 0]
    /\ dlFile = <<>>
    /\ dlRecv = <<>>
    /\ dlDone = FALSE

Volatile0 ==
    /\ state = DefaultState
    /\ app = NoApp
    /\ sd = "unset"
    /\ appInterval = 0
    /\ bootA = FALSE
    /\ bootE = FALSE
    /\ pollIdx = 1
    /\ btnLed = {}
    /\ ledWarn = FALSE
    /\ ledBusy = FALSE
    /\ netLed = "off"
    /\ buffer = "fresh"
    /\ crash = "none"
    /\ recordRead = FALSE
    /\ launched = FALSE
    /\ nWrites = 0
    /\ netTimer = FALSE
    /\ maxWait = 0
    /\ waits = 0
    /\ wlanStatus = 0
    /\ cycUpd = "none"
    /\ cycDrew = FALSE
    /\ drawHour = -1
    /\ drawLocal = -1
    /\ cycBufBefore = "unset"
    /\ cycTouched = {}
    /\ sleepArg = -1

Init ==
    /\ pc = "boot"
    /\ fs \in {Absent} \cup {File(t) : t \in RecordTexts}
    /\ configPresent \in BOOLEAN
    /\ hour \in Hours
    /\ screen = "factory"
    /\ selected = "none"
    /\ Volatile0
    /\ HarnessIdle

Next ==
    \/ Boot
    \/ ShowLauncher
    \/ HandleButtonPress
    \/ Reset
    \/ PhysicalReset
    \/ BootDispatch
    \/ Wifi
    \/ NetworkWait
    \/ NetworkReturn
    \/ AppUpdate
    \/ AppDraw
    \/ AppSleep
    \/ Wake

Spec == Init /\ [][Next]_vars

\* The interpreter runs the loop's statements one after the other, and a sleep
\* ends: time.sleep returns on USB power, the RTC alarm boots the board on battery.
SpecFair ==
    /\ Spec
    /\ WF_vars(AppUpdate)
    /\ WF_vars(AppDraw)
    /\ WF_vars(AppSleep)
    /\ WF_vars(Wake)

----------------------------------------------------------------------------
(* app_state.py's store called directly: save_state and load_state on any     *)
(* record and any in-memory state                                            *)

StoreStates ==
    {{<<"run", v>>} : v \in RunValues} \cup { {}, {<<"mode", Str("x")>>} }

\* The states the round trip is claimed for: run null or one of the five identifiers.
SaveArgs == {{<<"run", v>>} : v \in {None} \cup {Str(n) : n \in RegistryIds}}

StoreInit ==
    /\ pc = "unit"
    /\ fs \in {Absent, Directory} \cup {File(t) : t \in RecordTexts}
    /\ state \in StoreStates
    /\ configPresent = TRUE
    /\ hour = 0
    /\ screen = "factory"
    /\ selected = "none"
    /\ app = NoApp
    /\ sd = "unset"
    /\ appInterval = 0
    /\ bootA = FALSE
    /\ bootE = FALSE
    /\ pollIdx = 1
    /\ btnLed = {}
    /\ ledWarn = FALSE
    /\ ledBusy = FALSE
    /\ netLed = "off"
    /\ buffer = "fresh"
    /\ crash = "none"
    /\ recordRead = FALSE
    /\ launched = FALSE
    /\ nWrites = 0
    /\ netTimer = FALSE
    /\ maxWait = 0
    /\ waits = 0
    /\ wlanStatus = 0
    /\ cycUpd = "none"
    /\ cycDrew = FALSE
    /\ drawHour = -1
    /\ drawLocal = -1
    /\ cycBufBefore = "unset"
    /\ cycTouched = {}
    /\ sleepArg = -1
    /\ HarnessIdle

deviceVars == <<pc, app, sd, appInterval, configPresent, bootA, bootE, pollIdx, btnLed,
                ledWarn, ledBusy, netLed, buffer, screen, hour, crash, recordRead,
                launched, selected, nWrites, netTimer, maxWait, waits, wlanStatus,
                cycUpd, cycDrew, drawHour, drawLocal, cycBufBefore, cycTouched, sleepArg>>

CallSaveState ==
    /\ pc = "unit"
    /\ \E d \in SaveArgs :
        LET w == save_state(fs, d)
        IN  /\ fs' = w.fs
            /\ uRaised' = w.raised
            /\ uArg' = d
            /\ uOp' = IF w.raised = "none" THEN "save" ELSE "save_raised"
    /\ uPrev' = uOp
    /\ UNCHANGED <<state, uBefore, uName, uIn, uOut>>
    /\ UNCHANGED deviceVars
    /\ UNCHANGED downloadVars

CallLoadState ==
    /\ pc = "unit"
    /\ LET r == load_state(fs, state)
       IN  /\ state' = r.state
           /\ uRaised' = r.raised
    /\ uOp' = "load"
    /\ uPrev' = uOp
    /\ uBefore' = state
    /\ UNCHANGED <<fs, uArg, uName, uIn, uOut>>
    /\ UNCHANGED deviceVars
    /\ UNCHANGED downloadVars

StoreNext == CallSaveState \/ CallLoadState

SpecStore == StoreInit /\ [][StoreNext]_vars

----------------------------------------------------------------------------
(* get_app_update_interval called directly at any hour with any intervals *)

IntervalArgs == {30, 120, 240} \cup (0..MaxInterval)

IntervalInit ==
    /\ pc = "unit"
    /\ fs = Absent
    /\ state = DefaultState
    /\ configPresent = TRUE
    /\ hour \in Hours
    /\ screen = "factory"
    /\ selected = "none"
    /\ Volatile0
    /\ HarnessIdle

CallInterval ==
    /\ pc = "unit"
    /\ \E d \in IntervalArgs, n \in IntervalArgs :
        /\ uIn' = <<hour, d, n>>
        /\ uOut' = get_app_update_interval(hour, d, n)
    /\ uOp' = "interval"
    /\ uPrev' = uOp
    /\ UNCHANGED <<fs, state, uArg, uBefore, uName, uRaised>>
    /\ UNCHANGED deviceVars
    /\ UNCHANGED downloadVars

IntervalNext == CallInterval

SpecInterval == IntervalInit /\ [][IntervalNext]_vars

----------------------------------------------------------------------------
(* app_xkcd.do_update's download loop, lines 108-118, on any sequence of     *)
(* chunks the socket delivers                                                *)

\* The values of the bytes a chunk holds; the fresh bytearray holds zeros.
ByteValues == {1, 2}

Chunks(n) == [1..n -> ByteValues]

\* socket.readinto(data) delivering chunk: its bytes replace the first
\* Len(chunk) bytes of data, the rest of data stays.
readinto(data, chunk) ==
    [i \in 1..Len(data) |-> IF i <= Len(chunk) THEN chunk[i] ELSE data[i]]

DownloadInit ==
    /\ pc = "unit"
    /\ fs = Absent
    /\ state = DefaultState
    /\ configPresent = TRUE
    /\ hour = 0
    /\ screen = "factory"
    /\ selected = "none"
    /\ Volatile0
    /\ HarnessIdle

\* lines 112-115, a pass with readinto(data) > 0: f.write(data) writes the
\* whole buffer.
ReadChunk ==
    /\ pc = "unit"
    /\ ~dlDone
    /\ Len(dlFile) < MaxChunks * BufLen
    /\ \E n \in 1..BufLen : \E chunk \in Chunks(n) :
        /\ dlData' = readinto(dlData, chunk)
        /\ dlRecv' = dlRecv \o chunk
        /\ dlFile' = dlFile \o readinto(dlData, chunk)
    /\ UNCHANGED dlDone
    /\ UNCHANGED <<fs, state, uOp, uPrev, uArg, uBefore, uName, uRaised, uIn, uOut>>
    /\ UNCHANGED deviceVars

\* lines 113-114 and 118: readinto returns 0, break, the file is closed.
ReadEnd ==
    /\ pc = "unit"
    /\ ~dlDone
    /\ dlDone' = TRUE
    /\ UNCHANGED <<dlData, dlFile, dlRecv>>
    /\ UNCHANGED <<fs, state, uOp, uPrev, uArg, uBefore, uName, uRaised, uIn, uOut>>
    /\ UNCHANGED deviceVars

DownloadNext == ReadChunk \/ ReadEnd

SpecDownload == DownloadInit /\ [][DownloadNext]_vars

----------------------------------------------------------------------------
(* Properties *)

ChordRead == bootA /\ bootE
PicturesRecord == File(Dumps({<<"run", Str("app_pictures")>>}))

\* C1: once option B is the last launcher selection, the record is
\* {run: "app_pictures"}; LED B is lit only while the device is about to reset;
\* and in every boot without the A+E chord the driver is either still
\* dispatching or in the app loop with app_pictures bound, never in the
\* launcher and never stopped by an error.
C1_SelectBRunsPictures ==
    selected = "B" =>
        /\ fs = PicturesRecord
        /\ ("B" \in btnLed => pc = "reset")
        /\ (pc \notin {"boot", "reset"} /\ ~ChordRead =>
                /\ pc \in LoopPcs \cup {"dispatch"}
                /\ (pc \in LoopPcs => app = "app_pictures"))

\* C1 witness: a boot after the selection of B has reached the sleep of a cycle.
C1_Witness ==
    /\ selected = "B"
    /\ ~ChordRead
    /\ pc = "sleeping"
    /\ app = "app_pictures"
    /\ cycDrew

\* C2: when A and E were both read as pressed at boot, the driver is in the
\* launcher (or resetting after a selection made there), the record was not
\* read, launch_app was not called and no app is bound.
C2_ChordForcesLauncher ==
    ChordRead =>
        /\ pc \in LauncherPcs \cup {"reset"}
        /\ ~recordRead
        /\ ~launched
        /\ app = NoApp

\* C2 witness: the chord was read with an unparsable record on flash and the
\* launcher is polling.
C2_Witness ==
    /\ ChordRead
    /\ pc = "launcher"
    /\ fs.kind = "file"
    /\ Loads(fs.text).kind = "error"

\* The state part of C3: no exception of do_update leaves update(); in a cycle
\* whose do_update raised, the driver is at draw or sleep, draw has run before
\* the sleep, and sleep gets the app module's UPDATE_INTERVAL.
C3_Inv ==
    /\ crash # "UpdateError"
    /\ (cycUpd = "caught" => pc \in {"draw", "sleep", "sleeping"})
    /\ (cycUpd = "caught" /\ pc \in {"sleep", "sleeping"} => cycDrew)
    /\ (cycUpd = "caught" /\ pc = "sleeping" => sleepArg = ModuleInterval(app))

\* C3: in every cycle, for every app, an exception raised inside update() does
\* not escape it: the step after update is draw (or a reset by the user), draw
\* has run before the sleep, sleep gets the app module's UPDATE_INTERVAL, and
\* the step after the sleep is the next update (or the boot the RTC alarm or a
\* reset causes).
C3_UpdateFailureStillDrawsAndSleeps ==
    /\ []C3_Inv
    /\ [][pc = "update" => pc' \in {"draw", "boot"}]_vars
    /\ [][pc = "sleeping" /\ cycUpd = "caught" => pc' \in {"update", "boot"}]_vars

\* C3 witness: do_update raised in this cycle, draw ran and sleep was called.
C3_Witness ==
    /\ cycUpd = "caught"
    /\ cycDrew
    /\ pc = "sleeping"
    /\ sleepArg = 30

NoActiveApp(f) ==
    \/ f.kind = "absent"
    \/ f.kind = "file" /\ f.text = Dumps(DefaultState)

\* C4 (as claimed): in a boot without the chord, once the dispatch is done, a
\* record that is missing or holds run = null means the launcher is showing, and
\* launch_app was not called.
C4_NoActiveAppShowsLauncher ==
    ~ChordRead /\ pc \notin {"boot", "dispatch", "reset"} /\ NoActiveApp(fs) =>
        /\ pc \in LauncherPcs
        /\ ~launched
        /\ app = NoApp

NoUsableRecord(f) ==
    \/ f.kind # "file"
    \/ Loads(f.text).kind # "dict"
    \/ ~DictHas(Loads(f.text).d, "run")

\* C5 (as claimed): load_state, called as at boot with state = {run: null} in
\* memory, on a missing, unreadable, malformed or run-less record raises nothing
\* and leaves state = {run: null}.
C5_LoadNeverRaises ==
    uOp = "load" /\ uBefore = DefaultState /\ NoUsableRecord(fs) =>
        /\ uRaised = "none"
        /\ state = DefaultState

\* C6: a load_state that directly follows a completed save_state(d), d with run
\* null or one of the five identifiers, raises nothing and leaves state = d.
C6_SaveLoadRoundTrip ==
    uOp = "load" /\ uPrev = "save" =>
        /\ uRaised = "none"
        /\ state = uArg

\* C6 witness: the round trip of {run: null} with another state in memory when
\* the load began.
C6_Witness ==
    /\ uOp = "load"
    /\ uPrev = "save"
    /\ uArg = DefaultState
    /\ uBefore = {<<"run", Str("app_xkcd")>>}
    /\ state = DefaultState

\* C7 (as claimed): with config.py present, after launch_app(name) at boot the
\* app bound is the module called name for each of the five registry identifiers,
\* and no app for any other string.
C7_ResolutionTotalOverRegistry ==
    configPresent /\ launched /\ IsStr(DictGet(state, "run")) =>
        LET name == DictGet(state, "run")[2] IN
        /\ (name \in RegistryIds => app = name)
        /\ (name \notin RegistryIds => app = NoApp)

\* C8 (as claimed): when launch_app returned with app = None, the driver is in
\* the launcher and has not stopped with an uncaught error.
C8_UnresolvedFallsBackToLauncher ==
    launched /\ app = NoApp /\ crash # "TypeError" =>
        /\ pc \in LauncherPcs \cup {"reset"}
        /\ crash = "none"

\* C9 (as claimed): the minutes passed to sleep are the day/night value for the
\* hour at which the cycle's draw() ran: pictures 30 / 240, weather 30 / 120.
C9_SleepFollowsDayNightPolicy ==
    pc = "sleeping" /\ app \in {"app_pictures", "app_weather"} =>
        sleepArg = IF 8 <= drawHour /\ drawHour < 23 THEN 30
                   ELSE IF app = "app_pictures" THEN 240 ELSE 120

\* C10: get_app_update_interval(day, night) at hour h returns day when
\* 8 <= h < 23 and night otherwise; with day = 30 and night = 240, hours 8 and
\* 10 give 30 and hours 7 and 23 give 240.
C10_IntervalPolicy ==
    uOp = "interval" =>
        LET h == uIn[1]
            d == uIn[2]
            n == uIn[3]
        IN  /\ (8 <= h /\ h < 23 => uOut = d)
            /\ (h < 8 \/ h >= 23 => uOut = n)
            /\ (d = 30 /\ n = 240 /\ h \in {8, 10} => uOut = 30)
            /\ (d = 30 /\ n = 240 /\ h \in {7, 23} => uOut = 240)

\* C10 witness: the call at hour 23 with day 30 and night 240 returned 240.
C10_Witness ==
    /\ uOp = "interval"
    /\ uIn = <<23, 30, 240>>
    /\ uOut = 240

\* C11 as stated: the record is written only by a launcher selection, so a boot
\* that dispatched to a persisted app and is in its loop has written nothing.
C11_DispatchWritesNothing ==
    pc \in LoopPcs => nWrites = 0

\* C11: the content of the record changes only in the launcher step that saw
\* a button pressed, which writes once and goes to the reset; a boot that
\* dispatches to a persisted app opens the record for writing exactly once, in
\* launch_app, and leaves its content as it was; no step of the
\* update/draw/sleep loop writes or deletes it; a boot writes at most once.
C11_RecordWrites ==
    /\ [](nWrites <= 1)
    /\ [][fs' # fs => pc = "launcher" /\ pc' = "reset" /\ nWrites' = nWrites + 1]_vars
    /\ [][pc = "dispatch" /\ pc' = "wifi" => nWrites' = nWrites + 1 /\ fs' = fs]_vars
    /\ [][nWrites' > nWrites => pc \in {"launcher", "dispatch"}]_vars
    /\ [][(pc \in LoopPcs /\ pc' \in LoopPcs) => nWrites' = nWrites /\ fs' = fs]_vars

C11_Witness ==
    /\ pc = "sleeping"
    /\ cycDrew
    /\ nWrites = 1
    /\ selected = "B"
    /\ fs = PicturesRecord

\* C12: once update() has returned to the driver loop (the loop is at draw(),
\* at the sleep call or asleep), the busy LED is off, whether do_update
\* completed, raised, or was skipped.
C12_BusyLedOffAfterUpdate ==
    pc \in {"draw", "sleep", "sleeping"} => ~ledBusy

C12_Witness ==
    /\ pc = "draw"
    /\ cycUpd = "caught"
    /\ ~ledBusy

\* C13: in a cycle whose do_update raised, what draw() flushed to the panel is
\* the drawing buffer as it was when update() began, and it is not a cleared
\* (blank) buffer.
C13_FailedUpdateKeepsContent ==
    (cycUpd = "caught" /\ cycDrew) => (screen = cycBufBefore /\ screen # "blank")

RecordOf(name) == File(Dumps({<<"run", Str(name)>>}))

\* C14: with config.py missing, a chord-free boot that is past its dispatch
\* is in the Launcher when there is no record, is in the app's loop when the
\* record names app_pictures or app_xkcd, and has not ended with an uncaught
\* error when the record names app_weather.
C14_ConfigAbsenceNeverStops ==
    (~configPresent /\ ~ChordRead /\ pc \notin {"boot", "dispatch", "reset"}) =>
        /\ fs = Absent => pc \in LauncherPcs
        /\ (recordRead /\ fs \in {RecordOf("app_pictures"), RecordOf("app_xkcd")})
               => pc \in LoopPcs
        /\ (recordRead /\ fs = RecordOf("app_weather")) => pc # "crashed"

MountFailed == sd = "none" /\ app \in SdApps

\* C15: after os.mount failed while app_pictures or app_xkcd was imported, in
\* every later state of that boot update() has only ever returned at the sd
\* check, having touched neither the storage, the drawing buffer nor the busy
\* LED; the loop has not ended with an error; each of update(), draw() and
\* the sleep call hands over to the next step of the cycle; and sd stays None
\* until the next boot.
C15_MountFailureSkipsUpdate ==
    /\ [](MountFailed =>
            /\ pc \in LoopPcs
            /\ cycUpd \in {"none", "skipped"}
            /\ cycTouched = {}
            /\ ~ledBusy
            /\ buffer = "fresh")
    /\ [][(MountFailed /\ pc = "update") =>
            \/ pc' = "boot"
            \/ pc' = "draw" /\ cycUpd' = "skipped" /\ buffer' = buffer /\ ledBusy' = ledBusy]_vars
    /\ [][(MountFailed /\ pc = "draw") =>
            \/ pc' = "boot"
            \/ pc' = "sleep" /\ cycDrew']_vars
    /\ [][(MountFailed /\ pc = "sleep") =>
            \/ pc' = "boot"
            \/ pc' = "sleeping" /\ sleepArg' = appInterval]_vars
    /\ [][(MountFailed /\ pc' # "boot") => sd' = "none" /\ app' = app]_vars

C15_Witness ==
    /\ MountFailed
    /\ app = "app_xkcd"
    /\ pc = "sleeping"
    /\ cycUpd = "skipped"
    /\ cycTouched = {}
    /\ cycDrew
    /\ sleepArg = 480

\* The polling order and the identifiers C16 states.
StatedOrder == <<"A", "B", "C", "D", "E">>

StatedIdent(b) ==
    CASE b = "A" -> "app_nasa"
      [] b = "B" -> "app_pictures"
      [] b = "C" -> "app_weather"
      [] b = "D" -> "app_news"
      [] b = "E" -> "app_xkcd"

\* C16: the launcher polls A, B, C, D, E in turn, starting at A and going
\* round for as long as no button reads as pressed; a poll that reads not
\* pressed changes neither the record nor the LEDs; the first poll that reads
\* pressed switches that button's LED on and writes exactly that button's
\* identifier, as the only write of the boot, before the step to the reset;
\* and from the launcher the boot goes only to the reset and a new boot,
\* never to the app loop.
C16_LauncherSelection ==
    /\ [](pc \in LauncherPcs => nWrites = 0)
    /\ [](pc = "reset" => /\ nWrites = 1
                          /\ selected \in btnLed
                          /\ fs = RecordOf(StatedIdent(selected)))
    /\ [][(pc = "show_launcher" /\ pc' = "launcher") => pollIdx' = 1 /\ fs' = fs]_vars
    /\ [][(pc = "launcher" /\ pc' = "launcher") =>
            /\ pollIdx' = (pollIdx % 5) + 1
            /\ btnLed' = btnLed
            /\ nWrites' = nWrites
            /\ fs' = fs]_vars
    /\ [][(pc = "launcher" /\ pc' = "reset") =>
            /\ selected' = StatedOrder[pollIdx]
            /\ btnLed' = btnLed \cup {StatedOrder[pollIdx]}
            /\ nWrites' = 1
            /\ fs' = RecordOf(StatedIdent(StatedOrder[pollIdx]))]_vars
    /\ [][(pc \in LauncherPcs) => pc' \in LauncherPcs \cup {"reset", "boot"}]_vars
    /\ [][(pc = "reset") => pc' = "boot"]_vars

C16_Witness ==
    /\ pc = "reset"
    /\ pollIdx = 3
    /\ selected = "C"
    /\ btnLed = {"C"}
    /\ nWrites = 1
    /\ fs = RecordOf("app_weather")

\* C18: whatever statuses are read, network_connect leaves its wait loop
\* after at most 10 one-second waits (each pass that waits lowers max_wait,
\* which starts at 10 and never goes below 0), and the step that returns to
\* main.py leaves the pulsing timer stopped and, when the final status is not
\* 3, the warning LED on and the network LED off; the return leads to the
\* app loop's update(), and the timer is never running inside that loop.
C18_NetworkConnectReturns ==
    /\ [](waits <= 10)
    /\ [](pc = "wifi_wait" => maxWait >= 0 /\ waits + maxWait = 10)
    /\ [](pc \in {"update", "draw", "sleep", "sleeping"} => ~netTimer)
    /\ [][(pc = "wifi_wait") =>
            \/ pc' \in {"wifi_done", "boot"}
            \/ pc' = "wifi_wait" /\ maxWait' = maxWait - 1 /\ waits' = waits + 1]_vars
    /\ [][(pc = "wifi_done") =>
            \/ pc' = "boot"
            \/ /\ pc' = "update"
               /\ ~netTimer'
               /\ (wlanStatus' # 3) => (ledWarn' /\ netLed' = "off")]_vars

C18_Witness ==
    /\ pc = "wifi_done"
    /\ waits = 10
    /\ maxWait = 0
    /\ wlanStatus = 1
    /\ netTimer

CyclePcs == {"update", "draw", "sleep", "sleeping"}

\* C17: inside the app loop the steps come in the order update(), draw(),
\* sleep and round again, and the loop is left only by a new boot: draw() is
\* reached only after this cycle's update(), the sleep only after this
\* cycle's draw(); no step of the loop switches the warning LED on and leaves
\* it on, and it is off at the sleep; and every update() is followed by a
\* sleep, and every sleep by a further update() or a new boot.
C17_LoopOrder ==
    /\ [](pc = "update" => cycUpd = "none" /\ ~cycDrew)
    /\ [](pc = "draw" => cycUpd # "none" /\ ~cycDrew)
    /\ [](pc \in {"sleep", "sleeping"} => cycUpd # "none" /\ cycDrew /\ ~ledWarn)
    /\ [](pc = "sleeping" => sleepArg = appInterval)
    /\ [][(pc = "update") => pc' \in {"draw", "boot"}]_vars
    /\ [][(pc = "draw") => pc' \in {"sleep", "boot"}]_vars
    /\ [][(pc = "sleep") => pc' \in {"sleeping", "boot"}]_vars
    /\ [][(pc = "sleeping") => pc' \in {"update", "boot"}]_vars
    /\ [][(pc \in CyclePcs /\ ~ledWarn) => ~ledWarn']_vars
    /\ (pc = "update") ~> (pc \in {"sleeping", "boot"})
    /\ (pc = "sleeping") ~> (pc \in {"update", "boot"})

C17_Witness ==
    /\ pc = "update"
    /\ sleepArg = -1
    /\ screen = "weather"
    /\ buffer = "weather"
    /\ app = "app_weather"
    /\ ~ledWarn

\* C19: when the download loop has ended, the cache file holds exactly the
\* bytes the socket delivered, in order and with nothing added.
C19_CacheHoldsReceivedBytes ==
    dlDone => dlFile = dlRecv

====
